---- MODULE Spec2Model ----
(***************************************************************************)
(* Link mutation propagation of teable's LinkService                       *)
(* (getDerivateChangesByLink and the private methods it drives).           *)
(*                                                                         *)
(* Two tables are linked by one mirrored pair of link fields:              *)
(*   fldA on tblA, relationship manyOne, foreign table tblB;               *)
(*   fldB on tblB, relationship oneMany, foreign table tblA.               *)
(* A batch of cell contexts on tblA therefore has a oneMany symmetric      *)
(* field, a batch on tblB a manyOne symmetric field.                       *)
(*                                                                         *)
(* A cell value is a record [kind, ids]:                                   *)
(*   kind "none"   - undefined / null                                      *)
(*   kind "single" - { id }            (ids has one element)               *)
(*   kind "list"   - { id }[]          (ids in array order)                *)
(*   kind "other"  - any non-object value of another field type            *)
(***************************************************************************)
EXTENDS Integers, Sequences, FiniteSets, TLC

\* ------------------------------------------------------------------ bounds
\* contexts in one batch
MaxCtx == 2

\* ------------------------------------------------------------- vocabulary
TableA == "tblA"
TableB == "tblB"
Tables == {TableA, TableB}

FieldA == "fldA"
FieldB == "fldB"
\* a field of another type (text, user, ...) present on both tables
FieldOther == "fldOther"

RecordsOf == [tblA |-> {"recA1", "recA2"}, tblB |-> {"recB1", "recB2"}]

\* the text before the first upper-case letter of an id
IdPrefixOf == [recA1 |-> "rec", recA2 |-> "rec", recB1 |-> "rec", recB2 |-> "rec",
               usrX |-> "usr", undefined |-> "und"]

IdPrefixRecord == "rec"
ManyOne == "manyOne"
OneMany == "oneMany"

NullFk == "null"

None == [kind |-> "none", ids |-> <<>>]
Other == [kind |-> "other", ids |-> <<>>]
Single(id) == [kind |-> "single", ids |-> <<id>>]
List(s) == [kind |-> "list", ids |-> s]

Range(s) == {s[i] : i \in DOMAIN s}

\* rows of the prisma `field` table that hold link fields
FieldRows ==
  { [id |-> FieldA, tableId |-> TableA, type |-> "link", dbFieldName |-> "colA",
     options |-> [relationship |-> ManyOne, foreignTableId |-> TableB,
                  symmetricFieldId |-> FieldB, dbForeignKeyName |-> "fk_fldA"]],
    [id |-> FieldB, tableId |-> TableB, type |-> "link", dbFieldName |-> "colB",
     options |-> [relationship |-> OneMany, foreignTableId |-> TableA,
                  symmetricFieldId |-> FieldA, dbForeignKeyName |-> "fk_fldA"]] }

\* rows of the prisma `tableMeta` table
TableRows == { [id |-> TableA, dbTableName |-> "dbA"],
               [id |-> TableB, dbTableName |-> "dbB"] }

LinkFieldOf == [tblA |-> FieldA, tblB |-> FieldB]

\* ------------------------------------------------------- link cell filter
\* isLinkCellItem: an object with a string id that starts with IdPrefix.Record
isLinkCellItem(kind, ids) ==
  /\ kind = "single"
  /\ IdPrefixOf[ids[1]] = IdPrefixRecord

\* isLinkCell: an array whose first element is a link item, or a link item
isLinkCell(value) ==
  \/ /\ value.kind = "list"
     /\ Len(value.ids) > 0
     /\ isLinkCellItem("single", <<value.ids[1]>>)
  \/ isLinkCellItem(value.kind, value.ids)

filterLinkContext(ctxs) ==
  SelectSeq(ctxs, LAMBDA ctx : isLinkCell(ctx.newValue) \/ isLinkCell(ctx.oldValue))

\* --------------------------------------------------------- field metadata
getTinyFieldsByIds(fieldIds) == {fr \in FieldRows : fr.id \in fieldIds}

getTinyFieldMapByTableId(fieldIds) ==
  LET fields == getTinyFieldsByIds(fieldIds)
      symmetricFields ==
        getTinyFieldsByIds({field.options.symmetricFieldId : field \in fields})
      all == fields \cup symmetricFields
  IN [t \in {field.tableId : field \in all} |->
        [f \in {field.id : field \in {x \in all : x.tableId = t}} |->
           CHOOSE field \in all : field.id = f]]

getTableId2DbTableName(tableIds) ==
  [t \in {row.id : row \in {r \in TableRows : r.id \in tableIds}} |->
     (CHOOSE row \in TableRows : row.id = t).dbTableName]

\* ------------------------------------------------------- getCellMutation
\* polishValue: the ids a cell value references, in order
polishValue(value) ==
  IF value.kind = "list" THEN value.ids
  ELSE IF value.kind = "single" THEN value.ids
  ELSE IF value.kind = "other" THEN <<"undefined">>
  ELSE <<>>

\* a plausible slip: nothing is subtracted
differenceKeepAll(a, b) == a

\* a plausible slip: the common elements instead of the missing ones
differenceIntersect(a, b) == SelectSeq(a, LAMBDA x : x \in Range(b))

\* lodash difference: the elements of a, in order, that are not in b
difference(a, b) == SelectSeq(a, LAMBDA x : x \notin Range(b))

\* ICellMutation is kept as the sequence of its (table, record, field)
\* entries in the order a nested for-in visits them, plus the table keys
\* (a table key exists even when it holds no record).
EmptyMutation == [tables |-> <<>>, entries |-> <<>>]

KeyIndexes(entries, t, r, f) ==
  {i \in DOMAIN entries :
     entries[i].tableId = t /\ entries[i].recordId = r /\ entries[i].fieldId = f}

\* position after which a new key is inserted to keep nested for-in order
InsertAfter(entries, t, r) ==
  LET sameRec == {i \in DOMAIN entries :
                    entries[i].tableId = t /\ entries[i].recordId = r}
      sameTab == {i \in DOMAIN entries : entries[i].tableId = t}
      Max(S) == CHOOSE m \in S : \A n \in S : n <= m
  IN IF sameRec # {} THEN Max(sameRec)
     ELSE IF sameTab # {} THEN Max(sameTab)
     ELSE Len(entries)

\* prepare(targetRecordId): create the entry when it does not exist yet
prepare(entries, t, r, f) ==
  IF KeyIndexes(entries, t, r, f) # {} THEN entries
  ELSE LET p == InsertAfter(entries, t, r)
           e == [tableId |-> t, recordId |-> r, fieldId |-> f,
                 add |-> <<>>, del |-> <<>>]
       IN SubSeq(entries, 1, p) \o <<e>> \o SubSeq(entries, p + 1, Len(entries))

\* a plausible slip: the list of the key is replaced instead of extended
pushRecordOverwrite(entries, t, r, f, which, recordId) ==
  LET es == prepare(entries, t, r, f)
      i == CHOOSE k \in KeyIndexes(es, t, r, f) : TRUE
  IN IF which = "add"
       THEN [es EXCEPT ![i].add = <<recordId>>]
       ELSE [es EXCEPT ![i].del = <<recordId>>]

\* prepare(target).add.push(recordId)  /  prepare(target).del.push(recordId)
pushRecord(entries, t, r, f, which, recordId) ==
  LET es == prepare(entries, t, r, f)
      i == CHOOSE k \in KeyIndexes(es, t, r, f) : TRUE
  IN IF which = "add"
       THEN [es EXCEPT ![i].add = Append(@, recordId)]
       ELSE [es EXCEPT ![i].del = Append(@, recordId)]

RECURSIVE pushAll(_, _, _, _, _, _)
pushAll(entries, t, targets, f, which, recordId) ==
  IF targets = <<>> THEN entries
  ELSE pushAll(pushRecord(entries, t, Head(targets), f, which, recordId),
               t, Tail(targets), f, which, recordId)

\* one step of the reduce over the contexts; a field id missing from the
\* field map makes the options access throw a TypeError
reduceContext(acc, tableId, fieldMap, ctx) ==
  IF acc.error # "none" THEN acc
  ELSE IF tableId \notin DOMAIN fieldMap \/ ctx.fieldId \notin DOMAIN fieldMap[tableId]
    THEN [acc EXCEPT !.error = "TypeError"]
  ELSE
    LET oldIds == polishValue(ctx.oldValue)
        newIds == polishValue(ctx.newValue)
        toAdd == difference(newIds, oldIds)
        toDel == difference(oldIds, newIds)
        options == fieldMap[tableId][ctx.fieldId].options
        foreignTableId == options.foreignTableId
        symmetricFieldId == options.symmetricFieldId
        tables1 == IF foreignTableId \in Range(acc.tables) THEN acc.tables
                   ELSE Append(acc.tables, foreignTableId)
        e1 == pushAll(acc.entries, foreignTableId, toAdd, symmetricFieldId, "add", ctx.id)
        e2 == pushAll(e1, foreignTableId, toDel, symmetricFieldId, "del", ctx.id)
    IN [acc EXCEPT !.tables = tables1, !.entries = e2]

RECURSIVE reduceContexts(_, _, _, _)
reduceContexts(acc, tableId, fieldMap, ctxs) ==
  IF ctxs = <<>> THEN acc
  ELSE reduceContexts(reduceContext(acc, tableId, fieldMap, Head(ctxs)),
                      tableId, fieldMap, Tail(ctxs))

getCellMutation(tableId, fieldMap, ctxs) ==
  reduceContexts([tables |-> <<>>, entries |-> <<>>, error |-> "none"],
                 tableId, fieldMap, ctxs)

\* ------------------------------------------------ getRecordMapByMutation
\* One SELECT per table key of the mutation: the columns of the implicated
\* fields for the rows whose __id is among the mutation's record ids.  Rows
\* that do not exist yield no entry.  rows is the physical storage
\* [tableId -> [recordId -> [dbFieldName -> value]]].
getRecordMapByMutation(rows, fieldMap, cm) ==
  [t \in Range(cm.tables) |->
     LET recordIds == {e.recordId : e \in {x \in Range(cm.entries) : x.tableId = t}}
         fieldIds == {e.fieldId : e \in {x \in Range(cm.entries) : x.tableId = t}}
         dbFieldName2FieldId ==
           [c \in {fieldMap[t][f].dbFieldName : f \in fieldIds} |->
              CHOOSE f \in fieldIds : fieldMap[t][f].dbFieldName = c]
     IN [r \in recordIds \cap DOMAIN rows[t] |->
           [f \in fieldIds |->
              rows[t][r][CHOOSE c \in DOMAIN dbFieldName2FieldId :
                           dbFieldName2FieldId[c] = f]]]]

\* ----------------------------------------------- getCellChangeByMutation
Change(t, r, f, old, new) ==
  [tableId |-> t, recordId |-> r, fieldId |-> f, oldValue |-> old, newValue |-> new]

\* a plausible slip: the ids in add are put in front of the current list
oneManyNewValuePrepend(oldValue, add, del) ==
  add \o (IF oldValue.kind = "list"
            THEN SelectSeq(oldValue.ids, LAMBDA id : id \notin Range(del))
            ELSE <<>>)

\* a plausible slip: the references in del are not removed
oneManyNewValueNoFilter(oldValue, add, del) == oldValue.ids \o add

\* oneMany branch: the current list without the ids in del, then the ids in
\* add appended
oneManyNewValue(oldValue, add, del) ==
  (IF oldValue.kind = "list"
     THEN SelectSeq(oldValue.ids, LAMBDA id : id \notin Range(del))
     ELSE <<>>) \o add

\* the change of one (table, record, field) entry, or the error it throws
changeOfEntry(e, recordMap, fieldMap) ==
  IF e.recordId \notin DOMAIN recordMap[e.tableId]
    \* recordMapByTableId[tableId][recordId] is undefined: reading [fieldId] throws
    THEN [error |-> "TypeError", change |-> None]
  ELSE
    LET oldValue == recordMap[e.tableId][e.recordId][e.fieldId]
        field == fieldMap[e.tableId][e.fieldId]
        add == e.add
        del == e.del
    IN IF field.options.relationship = ManyOne
         THEN IF oldValue.kind = "other"
                THEN [error |-> "TypeError", change |-> None]
              ELSE IF oldValue.kind = "list"
                THEN [error |-> "ManyOne relationship's old value should be a single record",
                      change |-> None]
              ELSE IF Len(add) > 1 \/ Len(del) > 1
                THEN [error |-> "ManyOne relationship should not have multiple records",
                      change |-> None]
              ELSE IF Len(del) > 0 /\ (oldValue.kind = "none" \/ del[1] # oldValue.ids[1])
                THEN [error |-> "ManyOne relationship's old value should be equal to delete value",
                      change |-> None]
              ELSE [error |-> "none",
                    change |-> Change(e.tableId, e.recordId, e.fieldId, oldValue,
                                      IF Len(add) > 0 THEN Single(add[1]) ELSE None)]
         ELSE IF oldValue.kind \in {"single", "other"}
                \* oldValue.filter is not a function
                THEN [error |-> "TypeError", change |-> None]
              ELSE
                LET newValue == oneManyNewValue(oldValue, add, del)
                IN [error |-> "none",
                    change |-> Change(e.tableId, e.recordId, e.fieldId, oldValue,
                                      IF Len(newValue) > 0 THEN List(newValue) ELSE None)]

RECURSIVE changesOf(_, _, _, _)
changesOf(entries, recordMap, fieldMap, changes) ==
  IF entries = <<>> THEN [error |-> "none", changes |-> changes]
  ELSE LET res == changeOfEntry(Head(entries), recordMap, fieldMap)
       IN IF res.error # "none" THEN [error |-> res.error, changes |-> <<>>]
          ELSE changesOf(Tail(entries), recordMap, fieldMap, Append(changes, res.change))

getCellChangeByMutation(cm, recordMap, fieldMap) ==
  changesOf(cm.entries, recordMap, fieldMap, <<>>)

\* ------------------------------------------------------------------ state
VARIABLES
  rows,          \* physical rows: [tableId -> [recordId -> [column -> value]]]
  pc,            \* position of getDerivateChangesByLink and of its caller
  phase,         \* number of batches the caller has finished
  mode,          \* how the caller built the current batch
  tableId,       \* argument tableId
  contexts,      \* argument contexts
  linkContext,   \* filterLinkContext(contexts)
  cellMutation,  \* result of getCellMutation
  cellChange,    \* result of getCellChangeByMutation, the returned value
  writeIdx,      \* index of the change updateForeignKey handles next
  error,         \* "none" or the error thrown
  io,            \* storage reads issued by the current batch
  writes,        \* foreign key updates issued by the current batch, in order
  snapshot,      \* rows as they were before the first batch
  linked         \* <<source record, foreign record>> the second batch unlinks

vars == <<rows, pc, phase, mode, tableId, contexts, linkContext, cellMutation,
          cellChange, writeIdx, error, io, writes, snapshot, linked>>

Foreign(t) == IF t = TableA THEN TableB ELSE TableA

ColumnOf(t) == (CHOOSE fr \in FieldRows : fr.id = LinkFieldOf[t]).dbFieldName

\* the stored value of the link field of record r of table t
CellOf(rs, t, r) == rs[t][r][ColumnOf(t)]

\* the link fields' reference sets
Refs(value) == IF value.kind \in {"single", "list"} THEN Range(value.ids) ELSE {}

\* ------------------------------------------------------------------- Init
\* The list side in record order: the records of tblA that reference b
ListOf(asg, b) ==
  LET s == <<"recA1", "recA2">>
      refs == SelectSeq(s, LAMBDA a : a \in DOMAIN asg /\ asg[a] = b)
  IN IF refs = <<>> THEN None ELSE List(refs)

\* Both sides agree, the foreign key column agrees with the manyOne cell,
\* and at most one record has been deleted from its table.
InitRows(missing, asg) ==
  [t \in Tables |->
     IF t = TableA
       THEN [a \in RecordsOf[TableA] \ missing |->
               [colA |-> IF asg[a] = NullFk THEN None ELSE Single(asg[a]),
                fk_fldA |-> asg[a]]]
       ELSE [b \in RecordsOf[TableB] \ missing |-> [colB |-> ListOf(asg, b)]]]

\* at most one record has been deleted from its table
Deleted == {{}, {"recA2"}, {"recB2"}}

Init ==
  /\ \E missing \in Deleted :
       \E asg \in [RecordsOf[TableA] \ missing ->
                     (RecordsOf[TableB] \ missing) \cup {NullFk}] :
         rows = InitRows(missing, asg)
  /\ pc = "idle"
  /\ phase = 0
  /\ mode = "none"
  /\ tableId = TableA
  /\ contexts = <<>>
  /\ linkContext = <<>>
  /\ cellMutation = EmptyMutation
  /\ cellChange = <<>>
  /\ writeIdx = 0
  /\ error = "none"
  /\ io = [meta |-> 0, read |-> 0]
  /\ writes = <<>>
  /\ snapshot = rows
  /\ linked = <<>>

\* ----------------------------------------------------------------- inputs
Context(r, f, old, new) == [id |-> r, fieldId |-> f, oldValue |-> old, newValue |-> new]

\* values a caller submits for the link field of table t
LinkValues(t) ==
  IF t = TableA
    THEN {None} \cup {Single(b) : b \in RecordsOf[TableB]}
    ELSE {None, List(<<"recA1">>), List(<<"recA2">>), List(<<"recA1", "recA2">>)}

\* edits of a field of another type, none of them shaped like a link
OtherContexts(t) ==
  LET r == CHOOSE x \in DOMAIN rows[t] : TRUE
  IN { Context(r, FieldOther, Other, Other),
       Context(r, FieldOther, None, Single("usrX")),
       Context(r, FieldOther, List(<<"usrX">>), List(<<>>)) }

\* the value of a cell after the edits of the contexts before it
Chained(t, prefix, r) ==
  LET hits == {i \in DOMAIN prefix :
                 prefix[i].id = r /\ prefix[i].fieldId = LinkFieldOf[t]}
  IN IF hits = {} THEN CellOf(rows, t, r)
     ELSE prefix[CHOOSE i \in hits : \A j \in hits : j <= i].newValue

\* a context observed by the caller: an edit of the link field whose
\* oldValue is the value the cell has after the preceding contexts of the
\* batch, or an edit of the user field of the first record
NextContexts(t, prefix) ==
  UNION { { Context(r, LinkFieldOf[t], Chained(t, prefix, r), new) :
              new \in LinkValues(t) } : r \in DOMAIN rows[t] }
  \cup { Context(CHOOSE x \in DOMAIN rows[t] : TRUE, FieldOther, None, Single("usrX")) }

RECURSIVE BatchesOfLen(_, _)
BatchesOfLen(t, n) ==
  IF n = 0 THEN {<<>>}
  ELSE UNION { {Append(b, c) : c \in NextContexts(t, b)} : b \in BatchesOfLen(t, n - 1) }

\* one context whose oldValue was observed before a concurrent change
StaleBatches(t) ==
  { <<Context(r, LinkFieldOf[t], old, new)>> :
      r \in DOMAIN rows[t], old \in LinkValues(t), new \in LinkValues(t) }

\* edits of fields of other types only
OtherBatches(t) ==
  {<<c>> : c \in OtherContexts(t)} \cup {<<c, c>> : c \in OtherContexts(t)}

Batches(t) ==
  UNION {BatchesOfLen(t, n) : n \in 0..MaxCtx} \cup StaleBatches(t) \cup OtherBatches(t)

\* ------------------------------------------------ getDerivateChangesByLink
FieldIdsOf(ctxs) == {ctxs[i].fieldId : i \in DOMAIN ctxs}

\* a plausible slip: the early return for an empty link context is missing
BeginNoEarlyReturn(t, batch, m, lk) ==
  /\ pc = "idle"
  /\ tableId' = t
  /\ contexts' = batch
  /\ linkContext' = filterLinkContext(batch)
  /\ pc' = "fields"
  /\ mode' = m
  /\ linked' = lk
  /\ cellMutation' = EmptyMutation
  /\ cellChange' = <<>>
  /\ writeIdx' = 0
  /\ error' = "none"
  /\ io' = [meta |-> 0, read |-> 0]
  /\ writes' = <<>>
  /\ snapshot' = IF phase = 0 THEN rows ELSE snapshot
  /\ UNCHANGED <<rows, phase>>

\* The call: the contexts are filtered, and a batch without a link context
\* returns [] at once.
Begin(t, batch, m, lk) ==
  /\ pc = "idle"
  /\ tableId' = t
  /\ contexts' = batch
  /\ linkContext' = filterLinkContext(batch)
  /\ pc' = IF Len(filterLinkContext(batch)) = 0 THEN "returned" ELSE "fields"
  /\ mode' = m
  /\ linked' = lk
  /\ cellMutation' = EmptyMutation
  /\ cellChange' = <<>>
  /\ writeIdx' = 0
  /\ error' = "none"
  /\ io' = [meta |-> 0, read |-> 0]
  /\ writes' = <<>>
  /\ snapshot' = IF phase = 0 THEN rows ELSE snapshot
  /\ UNCHANGED <<rows, phase>>

\* await getTinyFieldMapByTableId (two findMany), getCellMutation,
\* await getTableId2DbTableName (one findMany)
LoadFields ==
  /\ pc = "fields"
  /\ LET fieldMap == getTinyFieldMapByTableId(FieldIdsOf(linkContext))
         cm == getCellMutation(tableId, fieldMap, linkContext)
     IN IF cm.error # "none"
          THEN /\ error' = cm.error
               /\ pc' = "failed"
               /\ io' = [io EXCEPT !.meta = @ + 2]
               /\ UNCHANGED cellMutation
          ELSE /\ cellMutation' = [tables |-> cm.tables, entries |-> cm.entries]
               /\ pc' = "records"
               /\ io' = [io EXCEPT !.meta = @ + 3]
               /\ UNCHANGED error
  /\ UNCHANGED <<rows, phase, mode, tableId, contexts, linkContext, cellChange,
                 writeIdx, writes, snapshot, linked>>

\* a plausible slip: the update of a change is issued twice
foreignKeyUpdateTwice(change, fieldMap, tableId2DbTableName) ==
  LET field == fieldMap[change.tableId][change.fieldId]
      w == [table |-> tableId2DbTableName[change.tableId],
            tableId |-> change.tableId,
            recordId |-> change.recordId,
            column |-> field.options.dbForeignKeyName,
            value |-> IF change.newValue.kind # "none"
                        THEN change.newValue.ids[1] ELSE NullFk]
  IN IF field.options.relationship # ManyOne THEN <<>> ELSE <<w, w>>

\* a plausible slip: the id of oldValue is written instead of newValue's
foreignKeyUpdateOld(change, fieldMap, tableId2DbTableName) ==
  LET field == fieldMap[change.tableId][change.fieldId]
  IN IF field.options.relationship # ManyOne THEN <<>>
     ELSE << [table |-> tableId2DbTableName[change.tableId],
              tableId |-> change.tableId,
              recordId |-> change.recordId,
              column |-> field.options.dbForeignKeyName,
              value |-> IF change.oldValue.kind # "none"
                          THEN change.oldValue.ids[1] ELSE NullFk] >>

\* the UPDATE one iteration of updateForeignKey issues, if any
foreignKeyUpdate(change, fieldMap, tableId2DbTableName) ==
  LET field == fieldMap[change.tableId][change.fieldId]
  IN IF field.options.relationship # ManyOne THEN <<>>
     ELSE << [table |-> tableId2DbTableName[change.tableId],
              tableId |-> change.tableId,
              recordId |-> change.recordId,
              column |-> field.options.dbForeignKeyName,
              value |-> IF change.newValue.kind # "none"
                          THEN change.newValue.ids[1] ELSE NullFk] >>

\* UPDATE <table> SET <column> = <value> WHERE __id = <recordId>
executeUpdate(rs, w) ==
  IF w.recordId \in DOMAIN rs[w.tableId]
    THEN [rs EXCEPT ![w.tableId][w.recordId][w.column] = w.value]
    ELSE rs

\* a plausible slip: the foreign key of a change is written as soon as the
\* change is synthesised, so the changes before a failing key are written
LoadRecordsWriteEarly ==
  /\ pc = "records"
  /\ LET fieldMap == getTinyFieldMapByTableId(FieldIdsOf(linkContext))
         names == getTableId2DbTableName(DOMAIN fieldMap)
         recordMap == getRecordMapByMutation(rows, fieldMap, cellMutation)
         res == getCellChangeByMutation(cellMutation, recordMap, fieldMap)
         first == changeOfEntry(cellMutation.entries[1], recordMap, fieldMap)
         early == IF first.error = "none"
                    THEN foreignKeyUpdate(first.change, fieldMap, names)
                    ELSE <<>>
     IN IF res.error # "none"
          THEN /\ error' = res.error
               /\ pc' = "failed"
               /\ writes' = early
               /\ rows' = IF early = <<>> THEN rows ELSE executeUpdate(rows, early[1])
               /\ UNCHANGED <<cellChange, writeIdx>>
          ELSE /\ cellChange' = res.changes
               /\ pc' = IF Len(res.changes) > 0 THEN "write" ELSE "returned"
               /\ writeIdx' = 1
               /\ UNCHANGED <<error, rows, writes>>
  /\ io' = [io EXCEPT !.read = @ + Len(cellMutation.tables)]
  /\ UNCHANGED <<phase, mode, tableId, contexts, linkContext, cellMutation,
                 snapshot, linked>>

\* await getRecordMapByMutation (one SELECT per table key), then
\* getCellChangeByMutation; updateForeignKey is entered when there are changes
LoadRecords ==
  /\ pc = "records"
  /\ LET fieldMap == getTinyFieldMapByTableId(FieldIdsOf(linkContext))
         recordMap == getRecordMapByMutation(rows, fieldMap, cellMutation)
         res == getCellChangeByMutation(cellMutation, recordMap, fieldMap)
     IN IF res.error # "none"
          THEN /\ error' = res.error
               /\ pc' = "failed"
               /\ UNCHANGED <<cellChange, writeIdx>>
          ELSE /\ cellChange' = res.changes
               /\ pc' = IF Len(res.changes) > 0 THEN "write" ELSE "returned"
               /\ writeIdx' = 1
               /\ UNCHANGED error
  /\ io' = [io EXCEPT !.read = @ + Len(cellMutation.tables)]
  /\ UNCHANGED <<rows, phase, mode, tableId, contexts, linkContext, cellMutation,
                 writes, snapshot, linked>>

\* one iteration of the loop of updateForeignKey
UpdateForeignKey ==
  /\ pc = "write"
  /\ LET fieldMap == getTinyFieldMapByTableId(FieldIdsOf(linkContext))
         names == getTableId2DbTableName(DOMAIN fieldMap)
         upd == foreignKeyUpdate(cellChange[writeIdx], fieldMap, names)
     IN /\ writes' = writes \o upd
        /\ rows' = IF upd = <<>> THEN rows ELSE executeUpdate(rows, upd[1])
  /\ writeIdx' = writeIdx + 1
  /\ pc' = IF writeIdx = Len(cellChange) THEN "returned" ELSE "write"
  /\ UNCHANGED <<phase, mode, tableId, contexts, linkContext, cellMutation,
                 cellChange, error, io, snapshot, linked>>

\* ----------------------------------------------------------------- caller
\* the caller persists the primary edits, in order
RECURSIVE ApplyEdits(_, _, _)
ApplyEdits(rs, t, ctxs) ==
  IF ctxs = <<>> THEN rs
  ELSE LET ctx == Head(ctxs)
           rs1 == IF ctx.fieldId = LinkFieldOf[t] /\ ctx.id \in DOMAIN rs[t]
                    THEN [rs EXCEPT ![t][ctx.id][ColumnOf(t)] = ctx.newValue]
                    ELSE rs
       IN ApplyEdits(rs1, t, Tail(ctxs))

\* the caller persists the returned derived changes
RECURSIVE ApplyChanges(_, _)
ApplyChanges(rs, changes) ==
  IF changes = <<>> THEN rs
  ELSE LET c == Head(changes)
           rs1 == IF c.recordId \in DOMAIN rs[c.tableId]
                    THEN [rs EXCEPT ![c.tableId][c.recordId][ColumnOf(c.tableId)] = c.newValue]
                    ELSE rs
       IN ApplyChanges(rs1, Tail(changes))

Apply ==
  /\ pc = "returned"
  /\ rows' = ApplyChanges(ApplyEdits(rows, tableId, contexts), cellChange)
  /\ pc' = "idle"
  /\ phase' = phase + 1
  /\ UNCHANGED <<mode, tableId, contexts, linkContext, cellMutation, cellChange,
                 writeIdx, error, io, writes, snapshot, linked>>

\* the error surfaces to the caller, which aborts the transaction
Abort ==
  /\ pc = "failed"
  /\ pc' = "idle"
  /\ phase' = phase + 1
  /\ UNCHANGED <<rows, mode, tableId, contexts, linkContext, cellMutation,
                 cellChange, writeIdx, error, io, writes, snapshot, linked>>

\* the first batch of a run
CallFirst ==
  /\ pc = "idle"
  /\ phase = 0
  /\ \E t \in Tables : \E batch \in Batches(t) : Begin(t, batch, "first", <<>>)

\* the last context of every edited cell
LastOfCell(ctxs) ==
  SelectSeq([i \in DOMAIN ctxs |-> [ctx |-> ctxs[i], i |-> i]],
            LAMBDA x : \A j \in DOMAIN ctxs :
               (ctxs[j].id = x.ctx.id /\ ctxs[j].fieldId = x.ctx.fieldId) => j <= x.i)

\* the same target values, observed against the state the first batch left
ReplayBatch(rs, t, ctxs) ==
  LET last == LastOfCell(ctxs)
  IN [k \in DOMAIN last |->
        LET ctx == last[k].ctx
        IN Context(ctx.id, ctx.fieldId,
                   IF ctx.fieldId = LinkFieldOf[t] THEN CellOf(rs, t, ctx.id)
                   ELSE ctx.newValue,
                   ctx.newValue)]

CallReplay ==
  /\ pc = "idle"
  /\ phase = 1
  /\ mode = "first"
  /\ error = "none"
  /\ Begin(tableId, ReplayBatch(rows, tableId, contexts), "replay", <<>>)

\* value without the reference to b
Without(value, b) ==
  LET rest == SelectSeq(value.ids, LAMBDA id : id # b)
  IN IF value.kind = "list" /\ rest # <<>> THEN List(rest) ELSE None

\* the first batch was one edit, observed against the stored value, that
\* linked record a to foreign record b; the second batch removes that
\* reference from the value now stored in a
CallUnlink ==
  /\ pc = "idle"
  /\ phase = 1
  /\ mode = "first"
  /\ error = "none"
  /\ Len(contexts) = 1
  /\ contexts[1].fieldId = LinkFieldOf[tableId]
  /\ contexts[1].oldValue = CellOf(snapshot, tableId, contexts[1].id)
  /\ \E b \in Range(difference(polishValue(contexts[1].newValue),
                               polishValue(contexts[1].oldValue))) :
       LET a == contexts[1].id
           stored == CellOf(rows, tableId, a)
       IN Begin(tableId, <<Context(a, LinkFieldOf[tableId], stored, Without(stored, b))>>,
                "unlink", <<a, b>>)

Next ==
  \/ CallFirst
  \/ CallReplay
  \/ CallUnlink
  \/ LoadFields
  \/ LoadRecords
  \/ UpdateForeignKey
  \/ Apply
  \/ Abort

Spec == Init /\ [][Next]_vars

TypeOK ==
  /\ pc \in {"idle", "fields", "records", "write", "returned", "failed"}
  /\ phase \in 0..2
  /\ Len(contexts) <= MaxCtx

\* ------------------------------------------------------ shared vocabulary
RelationshipOf(f) == (CHOOSE fr \in FieldRows : fr.id = f).options.relationship

ForeignKeyColumnOf(f) == (CHOOSE fr \in FieldRows : fr.id = f).options.dbForeignKeyName

\* a value shaped like a reference: an object whose id carries the record
\* prefix, or an array whose first element is such an object
LinkShaped(value) ==
  \/ value.kind = "single" /\ IdPrefixOf[value.ids[1]] = "rec"
  \/ value.kind = "list" /\ value.ids # <<>> /\ IdPrefixOf[value.ids[1]] = "rec"

\* a references b in the link field iff b references a in the symmetric field
InSync(rs) ==
  \A a \in DOMAIN rs[TableA] : \A b \in DOMAIN rs[TableB] :
    (b \in Refs(CellOf(rs, TableA, a))) <=> (a \in Refs(CellOf(rs, TableB, b)))

\* every link context carries the value stored before the batch
OldEqualsStored ==
  \A i \in DOMAIN contexts :
    contexts[i].fieldId = LinkFieldOf[tableId]
      => contexts[i].oldValue = CellOf(snapshot, tableId, contexts[i].id)

\* no two link contexts of the batch edit the same field of the same record
DistinctCells ==
  \A i, j \in DOMAIN linkContext :
    (i # j) => ~(linkContext[i].id = linkContext[j].id
                 /\ linkContext[i].fieldId = linkContext[j].fieldId)

\* the (table, record, field) entry of the mutation a change was made from
EntryOf(c) ==
  CHOOSE e \in Range(cellMutation.entries) :
    e.tableId = c.tableId /\ e.recordId = c.recordId /\ e.fieldId = c.fieldId

Count(s, x) == Cardinality({i \in DOMAIN s : s[i] = x})

\* synthesis has succeeded for the current batch
Synthesized == pc \in {"write", "returned"} /\ Len(linkContext) > 0

\* ------------------------------------------------------------------ C1
\* C1: from a state whose two sides are in sync, a successful batch whose
\* contexts carry the stored value as oldValue leaves the two sides in sync
\* once the primary edits and the derived changes are applied.
C1_MirrorConsistency ==
  (pc = "idle" /\ phase = 1 /\ error = "none" /\ InSync(snapshot) /\ OldEqualsStored)
    => InSync(rows)

\* ------------------------------------------------------------------ C2
\* C2: a batch without any link-shaped oldValue or newValue (the empty batch
\* included) returns the empty list and issues no metadata read, no row
\* read and no foreign key write.
C2_NoLinkNoStorage ==
  ( /\ pc # "idle" \/ phase > 0
    /\ \A i \in DOMAIN contexts :
         ~LinkShaped(contexts[i].oldValue) /\ ~LinkShaped(contexts[i].newValue) )
    => /\ pc \in {"returned", "idle"}
       /\ error = "none"
       /\ cellChange = <<>>
       /\ io = [meta |-> 0, read |-> 0]
       /\ writes = <<>>

\* a returned batch of two edits whose values are arrays and objects with
\* an id, none of them link-shaped
C2_Witness ==
  /\ pc = "returned"
  /\ Len(contexts) = 2
  /\ \A i \in DOMAIN contexts :
       ~LinkShaped(contexts[i].oldValue) /\ ~LinkShaped(contexts[i].newValue)
  /\ \E i \in DOMAIN contexts : contexts[i].newValue.kind = "single"
  /\ io.meta = 0

\* ------------------------------------------------------------------ C3
\* C3: when record recA1's manyOne link goes from absent to {id: recB1},
\* the derived change takes recB1's oneMany field from absent to
\* [{id: recA1}] and a foreign key write sets recA1's own column to recB1.
C3_LinkFromManyOne ==
  ( /\ pc = "returned"
    /\ mode = "first"
    /\ tableId = TableA
    /\ contexts = <<Context("recA1", FieldA, None, Single("recB1"))>>
    /\ CellOf(snapshot, TableA, "recA1") = None
    /\ CellOf(snapshot, TableB, "recB1") = None )
    => /\ cellChange = <<Change(TableB, "recB1", FieldB, None, List(<<"recA1">>))>>
       /\ \E k \in DOMAIN writes :
            /\ writes[k].tableId = TableA
            /\ writes[k].recordId = "recA1"
            /\ writes[k].column = ForeignKeyColumnOf(FieldA)
            /\ writes[k].value = "recB1"

\* ------------------------------------------------------------------ C4
\* C4: when the mutation names a foreign record that has no row, synthesis
\* does not fail and the change of that record starts from an absent value.
C4_MissingRowIsAbsent ==
  \A e \in Range(cellMutation.entries) :
    (pc \in {"write", "returned", "failed"} /\ e.recordId \notin DOMAIN rows[e.tableId])
      => /\ error = "none"
         /\ \E i \in DOMAIN cellChange :
              /\ cellChange[i].tableId = e.tableId
              /\ cellChange[i].recordId = e.recordId
              /\ cellChange[i].fieldId = e.fieldId
              /\ cellChange[i].oldValue = None

C6_NoNewDuplicates ==
  Synthesized =>
    \A i \in DOMAIN cellChange :
      RelationshipOf(cellChange[i].fieldId) = OneMany
        => \A id \in Refs(cellChange[i].newValue) :
             Count(cellChange[i].newValue.ids, id)
               <= IF id \in Refs(cellChange[i].oldValue)
                    THEN Count(cellChange[i].oldValue.ids, id) ELSE 1

C8_RoundTrip ==
  (pc = "idle" /\ phase = 2 /\ mode = "unlink" /\ error = "none")
    => CellOf(rows, Foreign(tableId), linked[2])
         = CellOf(snapshot, Foreign(tableId), linked[2])

\* ------------------------------------------------------------------ C9
\* C9: processing the target values of an applied batch again, observed
\* against the updated state, fails nowhere, yields no derived change that
\* alters a value and changes no stored column.
C9_Idempotent ==
  [][ mode' = "replay" =>
        /\ rows' = rows
        /\ error' = "none"
        /\ \A i \in DOMAIN cellChange' :
             cellChange'[i].newValue = cellChange'[i].oldValue ]_vars

\* a replayed batch has been processed after a first batch that changed
\* both tables
C9_Witness ==
  /\ mode = "replay"
  /\ pc = "idle"
  /\ phase = 2
  /\ Len(linkContext) > 0
  /\ \A t \in Tables : rows[t] # snapshot[t]

\* ----------------------------------------------------------------- C10
\* C10: a derived change of a manyOne field has an absent or single
\* newValue, and exactly one foreign key write is issued for it: on the row
\* of its recordId, on the field's foreign key column, with newValue's id or
\* null.
C10_ManyOneWrite ==
  pc = "returned" =>
    \A i \in DOMAIN cellChange :
      RelationshipOf(cellChange[i].fieldId) = ManyOne =>
        LET c == cellChange[i]
            ws == {k \in DOMAIN writes :
                     writes[k].tableId = c.tableId /\ writes[k].recordId = c.recordId}
            expected == IF c.newValue.kind = "single" THEN c.newValue.ids[1] ELSE NullFk
        IN /\ c.newValue.kind \in {"none", "single"}
           /\ Cardinality(ws) = 1
           /\ \A k \in ws : /\ writes[k].column = ForeignKeyColumnOf(c.fieldId)
                            /\ writes[k].value = expected
           /\ rows[c.tableId][c.recordId][ForeignKeyColumnOf(c.fieldId)] = expected

\* one batch attaches one record and detaches another
C10_Witness ==
  /\ pc = "returned"
  /\ \E i, j \in DOMAIN cellChange :
       /\ RelationshipOf(cellChange[i].fieldId) = ManyOne
       /\ RelationshipOf(cellChange[j].fieldId) = ManyOne
       /\ cellChange[i].newValue.kind = "single"
       /\ cellChange[i].oldValue.kind = "none"
       /\ cellChange[j].newValue.kind = "none"
       /\ cellChange[j].oldValue.kind = "single"
  /\ Len(writes) = Len(cellChange)

\* ----------------------------------------------------------------- C11
\* the errors getCellChangeByMutation throws for a manyOne symmetric field
InvariantViolation ==
  { "ManyOne relationship's old value should be a single record",
    "ManyOne relationship should not have multiple records",
    "ManyOne relationship's old value should be equal to delete value" }

\* the value stored for the key of a mutation entry; a record without a row
\* stores no reference
StoredOf(e) ==
  IF e.recordId \in DOMAIN rows[e.tableId]
    THEN CellOf(rows, e.tableId, e.recordId)
    ELSE None

\* the key's del list is non-empty and its first entry is not the id of the
\* stored reference
StaleUnlink(e) ==
  /\ RelationshipOf(e.fieldId) = ManyOne
  /\ e.del # <<>>
  /\ \/ StoredOf(e).kind = "none"
     \/ StoredOf(e).ids # <<e.del[1]>>

\* C11: when a key of a manyOne symmetric field has a non-empty del list
\* whose entry is not the id of the stored reference (no reference stored
\* included), synthesis fails with an invariant violation and the batch
\* returns no derived change.
C11_StaleUnlinkFails ==
  pc \in {"write", "returned", "failed"} =>
    \A e \in Range(cellMutation.entries) :
      StaleUnlink(e) => /\ pc = "failed"
                        /\ error \in InvariantViolation
                        /\ cellChange = <<>>

\* ----------------------------------------------------------------- C12
\* C12: a batch that fails has issued no foreign key write, has returned no
\* derived change and has left the rows as they were; a foreign key write is
\* issued only after every key of the mutation has been synthesised and
\* validated without error.
C12_ValidateBeforeWrite ==
  /\ pc = "failed" => writes = <<>> /\ cellChange = <<>>
  /\ (mode = "first" /\ error # "none") => rows = snapshot
  /\ writes # <<>> => /\ error = "none"
                      /\ Len(cellChange) = Len(cellMutation.entries)
                      /\ Len(writes) <= Len(cellChange)

\* a batch failed on an invariant violation at its second key, after a first
\* key that links one record and passes every check
C12_Witness ==
  /\ pc = "failed"
  /\ error \in InvariantViolation
  /\ Len(cellMutation.entries) = 2
  /\ LET e == cellMutation.entries[1]
     IN /\ RelationshipOf(e.fieldId) = ManyOne
        /\ Len(e.add) = 1
        /\ e.del = <<>>
        /\ StoredOf(e).kind = "none"
        /\ e.recordId \in DOMAIN rows[e.tableId]
  /\ writes = <<>>

\* ----------------------------------------------------------------- C13
\* a list of references as a cell value: absent when the list is empty
AsValue(ids) == IF ids = <<>> THEN None ELSE List(ids)

\* the batch's only link context takes record a's manyOne link from b1 to b2
Relinks(a, b1, b2) ==
  /\ tableId = TableA
  /\ linkContext = <<Context(a, FieldA, Single(b1), Single(b2))>>
  /\ {b1, b2} \subseteq DOMAIN rows[TableB]

Multiple(e) ==
  /\ RelationshipOf(e.fieldId) = ManyOne
  /\ Len(e.add) > 1 \/ Len(e.del) > 1

\* C14: when the add list or the del list of a key of a manyOne symmetric
\* field holds more than one entry, synthesis fails with an invariant
\* violation, so no batch that succeeds has such a key.
C14_MultipleFails ==
  pc \in {"write", "returned", "failed"} =>
    \A e \in Range(cellMutation.entries) :
      Multiple(e) => pc = "failed" /\ error \in InvariantViolation

\* ----------------------------------------------------------------- C15
\* the orders in which the contexts of a batch of n contexts can arrive
Orders(n) == {p \in [1..n -> 1..n] : \A i, j \in 1..n : p[i] = p[j] => i = j}

Permuted(ctxs, p) == [i \in DOMAIN ctxs |-> ctxs[p[i]]]

\* what steps 1 and 2 of getDerivateChangesByLink compute for the link
\* contexts ctxs against the rows now stored
SynthesisOf(ctxs) ==
  LET fieldMap == getTinyFieldMapByTableId(FieldIdsOf(ctxs))
      cm == getCellMutation(tableId, fieldMap, ctxs)
  IN IF cm.error # "none"
       THEN [cm |-> cm, error |-> cm.error, changes |-> <<>>]
       ELSE LET res == getCellChangeByMutation(
                         cm, getRecordMapByMutation(rows, fieldMap, cm), fieldMap)
            IN [cm |-> cm, error |-> res.error, changes |-> res.changes]

KeyOf(x) == <<x.tableId, x.recordId, x.fieldId>>

\* the same keys with the same add and del contents, compared as sets
SameMutation(cm1, cm2) ==
  {<<KeyOf(e), Range(e.add), Range(e.del)>> : e \in Range(cm1.entries)}
    = {<<KeyOf(e), Range(e.add), Range(e.del)>> : e \in Range(cm2.entries)}

\* both succeed or both fail, with the same references in the newValue of
\* the change of every key
SameOutcome(s1, s2) ==
  /\ (s1.error = "none") <=> (s2.error = "none")
  /\ {<<KeyOf(c), Refs(c.newValue)>> : c \in Range(s1.changes)}
       = {<<KeyOf(c), Refs(c.newValue)>> : c \in Range(s2.changes)}

\* C15: for every order of the contexts of a batch, getCellMutation yields
\* the same keys with the same add and del contents as sets, and synthesis
\* succeeds or fails alike and yields the same set of references in the
\* newValue of every derived change.
C15_OrderIndependent ==
  pc \in {"write", "returned", "failed"} =>
    LET here == SynthesisOf(linkContext)
    IN /\ (error = "none") <=> (here.error = "none")
       /\ cellChange = here.changes
       /\ \A p \in Orders(Len(linkContext)) :
            LET there == SynthesisOf(Permuted(linkContext, p))
            IN SameMutation(here.cm, there.cm) /\ SameOutcome(here, there)

\* two different contexts link two records to one foreign record, and the
\* other order of the two yields the derived list in another order
C15_Witness ==
  /\ pc = "returned"
  /\ Len(linkContext) = 2
  /\ linkContext[1] # linkContext[2]
  /\ \E e \in Range(cellMutation.entries) : Len(e.add) = 2
  /\ SynthesisOf(<<linkContext[2], linkContext[1]>>).changes # cellChange

\* ----------------------------------------------------------------- C16
\* the derived changes of manyOne link fields, in order
ManyOneChanges ==
  SelectSeq(cellChange, LAMBDA c : RelationshipOf(c.fieldId) = ManyOne)

\* when updateForeignKey has returned, the updates issued are, one for one
\* and in order, the derived changes of manyOne fields
OneUpdatePerManyOne ==
  pc = "returned" =>
    /\ Len(writes) = Len(ManyOneChanges)
    /\ \A k \in DOMAIN writes :
         /\ writes[k].tableId = ManyOneChanges[k].tableId
         /\ writes[k].recordId = ManyOneChanges[k].recordId
         /\ writes[k].column = ForeignKeyColumnOf(ManyOneChanges[k].fieldId)
         /\ writes[k].table = getTableId2DbTableName(Tables)[writes[k].tableId]

\* an iteration of updateForeignKey changes no stored value other than the
\* foreign key column of the row of a manyOne change's recordId
OnlyForeignKeyColumn ==
  pc = "write" =>
    /\ \A t \in Tables : DOMAIN rows'[t] = DOMAIN rows[t]
    /\ \A t \in Tables : \A r \in DOMAIN rows[t] : \A col \in DOMAIN rows[t][r] :
         rows'[t][r][col] # rows[t][r][col] =>
           /\ RelationshipOf(cellChange[writeIdx].fieldId) = ManyOne
           /\ t = cellChange[writeIdx].tableId
           /\ r = cellChange[writeIdx].recordId
           /\ col = ForeignKeyColumnOf(cellChange[writeIdx].fieldId)

\* C16: updateForeignKey issues exactly one update per derived change of a
\* manyOne link field and none for a change of a oneMany field, and it
\* writes no row other than the one of the change's recordId and no column
\* other than the field's foreign key column.
C16_WriterFrame ==
  []OneUpdatePerManyOne /\ [][OnlyForeignKeyColumn]_vars

\* updateForeignKey has returned after two manyOne changes on two rows that
\* altered the foreign key column of both
C16_Witness ==
  /\ pc = "returned"
  /\ mode = "first"
  /\ Len(ManyOneChanges) = 2
  /\ Len(writes) = 2
  /\ writes[1].recordId # writes[2].recordId
  /\ \A k \in DOMAIN writes :
       rows[TableA][writes[k].recordId].fk_fldA # snapshot[TableA][writes[k].recordId].fk_fldA

====
